---- MODULE Spec2Model ----
(***************************************************************************)
(* Model of nextbus.py: a client of the NextBus public XML feed.           *)
(*                                                                         *)
(* A response body is the element tree ElementTree builds from it: an      *)
(* element is a record [tag, attrib, children], attrib a function from     *)
(* attribute names to strings and children a sequence of elements.         *)
(* A Python dict is a function whose domain is its key set, a Python list  *)
(* a sequence, a Python bool a BOOLEAN, a Python str a string.             *)
(* The transport (requests.get) is the environment: it counts the GETs     *)
(* it receives, remembers the parameters of the last one and serves a      *)
(* body.                                                                   *)
(***************************************************************************)
EXTENDS Integers, Sequences, FiniteSets, TLC

VARIABLES
    obj,          \* life of the Agency object: "unconstructed", "live", "failed"
    agency,       \* self.agency
    routes,       \* self.routes
    calls,        \* number of requests.get invocations so far
    lastRequest,  \* parameters of the last requests.get
    response,     \* the body the transport serves (res.text, parsed)
    op,           \* the operation called last
    args,         \* its arguments
    outcome,      \* "return" or the exception it raised
    result        \* the value it returned

vars == <<obj, agency, routes, calls, lastRequest, response, op, args, outcome, result>>

(***************************************************************************)
(* Bounds of the model.                                                    *)
(***************************************************************************)
MaxCalls    == 3   \* GETs the transport serves in one behaviour
MaxAgencies == 2   \* agency elements in an agencyList body
MaxRoutes   == 2   \* route elements in a routeList body
MaxChildren == 2   \* children of the route element of a routeConfig body
MaxDirStops == 2   \* stop children of a direction of a routeConfig body
MaxPreds    == 1   \* prediction children of a direction of a predictions body
MaxInfos    == 2   \* direction/message children of a predictions block
MaxBlocks   == 2   \* predictions blocks of a predictions body

(***************************************************************************)
(* Python values.                                                          *)
(***************************************************************************)
None == "None"                       \* Python's None (no argument is this string)
Truthy(s) == s # None /\ s # ""      \* bool(s) for s a str or None

EmptyDict == <<>>                    \* {}
EmptyList == <<>>                    \* []

DictSet(d, k, v) == [x \in (DOMAIN d) \cup {k} |-> IF x = k THEN v ELSE d[x]]

Return(v) == [err |-> "", value |-> v]
Raise(e)  == [err |-> e, value |-> <<>>]

SeqsUpTo(S, n) == UNION {[1..k -> S] : k \in 0..n}

(***************************************************************************)
(* XML trees.                                                              *)
(***************************************************************************)
Elem(tag, attrib, children) == [tag |-> tag, attrib |-> attrib, children |-> children]
Body(children) == Elem("body", <<>>, children)
NoBody == Elem("", <<>>, <<>>)       \* the transport has served nothing yet

Has(att, names) == names \subseteq DOMAIN att

\* the last position of s, if any, whose element has attribute name = v; 0 if none
LastWith(s, name, v) ==
    LET I == {i \in 1..Len(s) : name \in DOMAIN s[i].attrib /\ s[i].attrib[name] = v}
    IN  IF I = {} THEN 0 ELSE CHOOSE i \in I : \A j \in I : j <= i

\* the same among the elements of s whose tag is etag
LastTagged(s, etag, name, v) ==
    LET I == {i \in 1..Len(s) : /\ s[i].tag = etag
                                /\ name \in DOMAIN s[i].attrib
                                /\ s[i].attrib[name] = v}
    IN  IF I = {} THEN 0 ELSE CHOOSE i \in I : \A j \in I : j <= i

BASE_URL == "http://webservices.nextbus.com/service/publicXMLFeed"

JAVA_TF_TO_PYTHON_TF_bool == ("true" :> TRUE) @@ ("false" :> TRUE)

JAVA_TF_TO_PYTHON_TF == ("true" :> TRUE) @@ ("false" :> FALSE)

(***************************************************************************)
(* get_agencies                                                            *)
(***************************************************************************)
RECURSIVE AgencyLoop(_, _, _)
AgencyLoop(tree, i, agency_dict) ==
    IF i > Len(tree) THEN Return(agency_dict)
    ELSE LET att == tree[i].attrib IN
         IF ~ Has(att, {"tag", "title", "regionTitle"}) THEN Raise("KeyError")
         ELSE LET d1 == DictSet(agency_dict, att["tag"],
                                [title |-> att["title"], regionTitle |-> att["regionTitle"]])
                  d2 == IF "shortTitle" \in DOMAIN att
                        THEN DictSet(d1, "shortTitle", att["shortTitle"])
                        ELSE d1
              IN  AgencyLoop(tree, i + 1, d2)

AgenciesOf(body) == AgencyLoop(body.children, 1, EmptyDict)

GetAgencies(body) ==
    /\ calls < MaxCalls
    /\ calls' = calls + 1
    /\ lastRequest' = ("command" :> "agencyList")
    /\ response' = body
    /\ op' = "get_agencies"
    /\ args' = <<>>
    /\ outcome' = (IF AgenciesOf(body).err = "" THEN "return" ELSE AgenciesOf(body).err)
    /\ result' = AgenciesOf(body).value
    /\ UNCHANGED <<obj, agency, routes>>

(***************************************************************************)
(* Agency.__init__ and Agency.get_routes                                   *)
(***************************************************************************)
RECURSIVE RoutesLoop_swapped(_, _, _)
RoutesLoop_swapped(tree, i, routes_dict) ==
    IF i > Len(tree) THEN Return(routes_dict)
    ELSE LET att == tree[i].attrib IN
         IF ~ Has(att, {"tag", "title"}) THEN Raise("KeyError")
         ELSE RoutesLoop_swapped(tree, i + 1, DictSet(routes_dict, att["title"], att["tag"]))

RECURSIVE RoutesLoop(_, _, _)
RoutesLoop(tree, i, routes_dict) ==
    IF i > Len(tree) THEN Return(routes_dict)
    ELSE LET att == tree[i].attrib IN
         IF ~ Has(att, {"tag", "title"}) THEN Raise("KeyError")
         ELSE RoutesLoop(tree, i + 1, DictSet(routes_dict, att["tag"], att["title"]))

RoutesOf(body) == RoutesLoop(body.children, 1, EmptyDict)

RouteListRequest(a) == ("a" :> a) @@ ("command" :> "routeList")

AgencyInit(a, body) ==
    /\ obj = "unconstructed"
    /\ calls < MaxCalls
    /\ agency' = a
    /\ calls' = calls + 1
    /\ lastRequest' = RouteListRequest(a)
    /\ response' = body
    /\ op' = "__init__"
    /\ args' = <<a>>
    /\ IF RoutesOf(body).err = ""
       THEN /\ routes' = RoutesOf(body).value
            /\ obj' = "live"
            /\ outcome' = "return"
       ELSE /\ routes' = routes
            /\ obj' = "failed"
            /\ outcome' = RoutesOf(body).err
    /\ result' = <<>>

GetRoutes_refresh(body) ==
    /\ obj = "live"
    /\ calls < MaxCalls
    /\ calls' = calls + 1
    /\ lastRequest' = RouteListRequest(agency)
    /\ response' = body
    /\ op' = "get_routes"
    /\ args' = <<>>
    /\ outcome' = (IF RoutesOf(body).err = "" THEN "return" ELSE RoutesOf(body).err)
    /\ result' = RoutesOf(body).value
    /\ routes' = (IF RoutesOf(body).err = "" THEN RoutesOf(body).value ELSE routes)
    /\ UNCHANGED <<obj, agency>>

GetRoutes(body) ==
    /\ obj = "live"
    /\ calls < MaxCalls
    /\ calls' = calls + 1
    /\ lastRequest' = RouteListRequest(agency)
    /\ response' = body
    /\ op' = "get_routes"
    /\ args' = <<>>
    /\ outcome' = (IF RoutesOf(body).err = "" THEN "return" ELSE RoutesOf(body).err)
    /\ result' = RoutesOf(body).value
    /\ UNCHANGED <<obj, agency, routes>>

(***************************************************************************)
(* Agency.get_route_config                                                 *)
(***************************************************************************)
StopData(att) ==
    LET d0 == [lat |-> att["lat"], lon |-> att["lon"], title |-> att["title"]]
        d1 == IF "stopId" \in DOMAIN att THEN DictSet(d0, "stopId", att["stopId"]) ELSE d0
    IN  IF "shortTitle" \in DOMAIN att THEN DictSet(d1, "shortTitle", att["shortTitle"]) ELSE d1

RECURSIVE DirStopsLoop_dedup(_, _, _)
DirStopsLoop_dedup(c, i, stops) ==
    IF i > Len(c) THEN Return(stops)
    ELSE IF "tag" \notin DOMAIN c[i].attrib THEN Raise("KeyError")
    ELSE IF \E j \in 1..Len(stops) : stops[j] = c[i].attrib["tag"]
         THEN DirStopsLoop_dedup(c, i + 1, stops)
         ELSE DirStopsLoop_dedup(c, i + 1, Append(stops, c[i].attrib["tag"]))

RECURSIVE DirStopsLoop(_, _, _)
DirStopsLoop(c, i, stops) ==
    IF i > Len(c) THEN Return(stops)
    ELSE IF "tag" \notin DOMAIN c[i].attrib THEN Raise("KeyError")
    ELSE DirStopsLoop(c, i + 1, Append(stops, c[i].attrib["tag"]))

DirectionData(att, stops) ==
    LET d0 == [title |-> att["title"], stops |-> stops]
    IN  IF "name" \in DOMAIN att THEN DictSet(d0, "name", att["name"]) ELSE d0

RECURSIVE RouteCfgLoop(_, _, _)
RouteCfgLoop(route_cfg, i, route_cfg_dict) ==
    IF i > Len(route_cfg) THEN Return(route_cfg_dict)
    ELSE LET c == route_cfg[i]
             att == c.attrib
         IN
         IF c.tag = "stop" THEN
             IF ~ Has(att, {"lat", "lon", "title", "tag"}) THEN Raise("KeyError")
             ELSE RouteCfgLoop(route_cfg, i + 1,
                     [route_cfg_dict EXCEPT
                         !.stops = DictSet(@, att["tag"], StopData(att))])
         ELSE IF c.tag = "direction" THEN
             IF "title" \notin DOMAIN att THEN Raise("KeyError")
             ELSE IF DirStopsLoop(c.children, 1, EmptyList).err # ""
                  THEN DirStopsLoop(c.children, 1, EmptyList)
             ELSE IF "tag" \notin DOMAIN att THEN Raise("KeyError")
             ELSE RouteCfgLoop(route_cfg, i + 1,
                     [route_cfg_dict EXCEPT
                         !.directions = DictSet(@, att["tag"],
                             DirectionData(att, DirStopsLoop(c.children, 1, EmptyList).value))])
         ELSE RouteCfgLoop(route_cfg, i + 1, route_cfg_dict)

EmptyRouteCfg == [stops |-> EmptyDict, directions |-> EmptyDict, paths |-> EmptyDict]

RouteConfigOf_raise(body) ==
    IF Len(body.children) = 0 THEN Raise("IndexError")
    ELSE IF Len(body.children[1].children) = 0 THEN Raise("Exception")
    ELSE RouteCfgLoop(body.children[1].children, 1, EmptyRouteCfg)

RouteConfigOf(body) ==
    IF Len(body.children) = 0 THEN Raise("IndexError")
    ELSE RouteCfgLoop(body.children[1].children, 1, EmptyRouteCfg)

RouteConfigRequest(a, route_id) ==
    ("a" :> a) @@ ("command" :> "routeConfig") @@ ("r" :> route_id) @@ ("terse" :> None)

\* the call as a whole: whether the GET is sent, and how the call ends
RouteConfigCall_late(self_routes, route_id, body) ==
    IF route_id \notin DOMAIN self_routes
    THEN [sent |-> TRUE, err |-> "Exception", value |-> <<>>]
    ELSE [sent |-> TRUE, err |-> RouteConfigOf(body).err, value |-> RouteConfigOf(body).value]

RouteConfigCall(self_routes, route_id, body) ==
    IF route_id \notin DOMAIN self_routes
    THEN [sent |-> FALSE, err |-> "Exception", value |-> <<>>]
    ELSE [sent |-> TRUE, err |-> RouteConfigOf(body).err, value |-> RouteConfigOf(body).value]

GetRouteConfig(route_id, body) ==
    /\ obj = "live"
    /\ LET r == RouteConfigCall(routes, route_id, body) IN
       /\ r.sent => calls < MaxCalls
       /\ calls' = (IF r.sent THEN calls + 1 ELSE calls)
       /\ lastRequest' = (IF r.sent THEN RouteConfigRequest(agency, route_id) ELSE lastRequest)
       /\ response' = (IF r.sent THEN body ELSE response)
       /\ outcome' = (IF r.err = "" THEN "return" ELSE r.err)
       /\ result' = r.value
    /\ op' = "get_route_config"
    /\ args' = <<route_id>>
    /\ UNCHANGED <<obj, agency, routes>>

(***************************************************************************)
(* Agency.get_predictions                                                  *)
(***************************************************************************)
PDictOf(p_att) ==
    IF ~ Has(p_att, {"epochTime", "seconds", "minutes", "isDeparture"}) THEN Raise("KeyError")
    ELSE IF p_att["isDeparture"] \notin DOMAIN JAVA_TF_TO_PYTHON_TF THEN Raise("KeyError")
    ELSE IF ~ Has(p_att, {"dirTag", "tripTag"}) THEN Raise("KeyError")
    ELSE IF \E a \in {"affectedByLayover", "isScheduleBased", "isDelayed"} :
               a \in DOMAIN p_att /\ p_att[a] \notin DOMAIN JAVA_TF_TO_PYTHON_TF
         THEN Raise("KeyError")
    ELSE Return(
        [epochTime |-> p_att["epochTime"],
         seconds |-> p_att["seconds"],
         minutes |-> p_att["minutes"],
         isDeparture |-> JAVA_TF_TO_PYTHON_TF[p_att["isDeparture"]],
         dirTag |-> p_att["dirTag"],
         tripTag |-> p_att["tripTag"],
         affectedByLayover |->
             IF "affectedByLayover" \in DOMAIN p_att
             THEN JAVA_TF_TO_PYTHON_TF[p_att["affectedByLayover"]] ELSE FALSE,
         isScheduleBased |->
             IF "isScheduleBased" \in DOMAIN p_att
             THEN JAVA_TF_TO_PYTHON_TF[p_att["isScheduleBased"]] ELSE FALSE,
         isDelayed |->
             IF "isDelayed" \in DOMAIN p_att
             THEN JAVA_TF_TO_PYTHON_TF[p_att["isDelayed"]] ELSE FALSE])

RECURSIVE PredDirLoop(_, _, _)
PredDirLoop(pred_info, i, pred_dir_list) ==
    IF i > Len(pred_info) THEN Return(pred_dir_list)
    ELSE IF PDictOf(pred_info[i].attrib).err # "" THEN PDictOf(pred_info[i].attrib)
    ELSE PredDirLoop(pred_info, i + 1,
                     Append(pred_dir_list, PDictOf(pred_info[i].attrib).value))

RECURSIVE PredLineLoop(_, _, _)
PredLineLoop(predictions, i, pred_line_dict) ==
    IF i > Len(predictions) THEN Return(pred_line_dict)
    ELSE LET pred_info == predictions[i]
             att == pred_info.attrib
         IN
         IF pred_info.tag = "direction" THEN
             IF PredDirLoop(pred_info.children, 1, EmptyList).err # ""
             THEN PredDirLoop(pred_info.children, 1, EmptyList)
             ELSE IF "title" \notin DOMAIN att THEN Raise("KeyError")
             ELSE PredLineLoop(predictions, i + 1,
                     DictSet(pred_line_dict, att["title"],
                             PredDirLoop(pred_info.children, 1, EmptyList).value))
         ELSE IF pred_info.tag = "message" THEN
             IF ~ Has(att, {"priority", "text"}) THEN Raise("KeyError")
             ELSE PredLineLoop(predictions, i + 1,
                     DictSet(pred_line_dict, "messages",
                             Append(pred_line_dict["messages"],
                                    [priority |-> att["priority"], text |-> att["text"]])))
         ELSE PredLineLoop(predictions, i + 1, pred_line_dict)

PredLineOf(predictions) ==
    PredLineLoop(predictions.children, 1, [directions |-> EmptyDict, messages |-> EmptyList])

RECURSIVE PredictionsLoop(_, _, _)
PredictionsLoop(predictions_tree, i, predictions_dict) ==
    IF i > Len(predictions_tree) THEN Return(predictions_dict)
    ELSE IF PredLineOf(predictions_tree[i]).err # "" THEN PredLineOf(predictions_tree[i])
    ELSE IF "routeTag" \notin DOMAIN predictions_tree[i].attrib THEN Raise("KeyError")
    ELSE PredictionsLoop(predictions_tree, i + 1,
             DictSet(predictions_dict, predictions_tree[i].attrib["routeTag"],
                     PredLineOf(predictions_tree[i]).value))

PredictionsOf(body) == PredictionsLoop(body.children, 1, EmptyDict)

PredictionsRequest(a, stop_id, route_id) ==
    LET req_params == ("a" :> a) @@ ("command" :> "predictions") @@ ("stopId" :> stop_id)
    IN  IF Truthy(route_id) THEN DictSet(req_params, "routeTag", route_id) ELSE req_params

PredictionsCall_wrapped(self_routes, route_id, body) ==
    [sent |-> TRUE, err |-> PredictionsOf(body).err, value |-> PredictionsOf(body).value]

PredictionsCall_checked(self_routes, route_id, body) ==
    IF Truthy(route_id) /\ route_id \notin DOMAIN self_routes
    THEN [sent |-> FALSE, err |-> "Exception", value |-> <<>>]
    ELSE IF PredictionsOf(body).err # ""
    THEN [sent |-> TRUE, err |-> PredictionsOf(body).err, value |-> <<>>]
    ELSE IF ~ Truthy(route_id)
    THEN [sent |-> TRUE, err |-> "", value |-> PredictionsOf(body).value]
    ELSE IF route_id \notin DOMAIN PredictionsOf(body).value
    THEN [sent |-> TRUE, err |-> "KeyError", value |-> <<>>]
    ELSE [sent |-> TRUE, err |-> "", value |-> PredictionsOf(body).value[route_id]]

\* the call as a whole; self.routes is in scope but never read
PredictionsCall(self_routes, route_id, body) ==
    IF PredictionsOf(body).err # ""
    THEN [sent |-> TRUE, err |-> PredictionsOf(body).err, value |-> <<>>]
    ELSE IF ~ Truthy(route_id)
    THEN [sent |-> TRUE, err |-> "", value |-> PredictionsOf(body).value]
    ELSE IF route_id \notin DOMAIN PredictionsOf(body).value
    THEN [sent |-> TRUE, err |-> "KeyError", value |-> <<>>]
    ELSE [sent |-> TRUE, err |-> "", value |-> PredictionsOf(body).value[route_id]]

GetPredictions(stop_id, route_id, body) ==
    /\ obj = "live"
    /\ LET r == PredictionsCall(routes, route_id, body) IN
       /\ r.sent => calls < MaxCalls
       /\ calls' = (IF r.sent THEN calls + 1 ELSE calls)
       /\ lastRequest' =
             (IF r.sent THEN PredictionsRequest(agency, stop_id, route_id) ELSE lastRequest)
       /\ response' = (IF r.sent THEN body ELSE response)
       /\ outcome' = (IF r.err = "" THEN "return" ELSE r.err)
       /\ result' = r.value
    /\ op' = "get_predictions"
    /\ args' = <<stop_id, route_id>>
    /\ UNCHANGED <<obj, agency, routes>>

(***************************************************************************)
(* The bodies the transport serves.                                        *)
(***************************************************************************)
AgencyIds == {"sf-muni", "actransit"}
RouteIds  == {"R1", "R2", "R9"}
StopIds   == {"14015"}

\* agencyList: <agency tag= title= regionTitle= [shortTitle=]/>
AgencyElem(tag, title, shortTitles) ==
    Elem("agency",
         IF shortTitles = {}
         THEN ("tag" :> tag) @@ ("title" :> title) @@ ("regionTitle" :> "California-Northern")
         ELSE ("tag" :> tag) @@ ("title" :> title) @@ ("regionTitle" :> "California-Northern")
              @@ ("shortTitle" :> CHOOSE t \in shortTitles : TRUE),
         <<>>)

AgencyElems ==
    {AgencyElem(tag, title, st) :
        tag \in AgencyIds, title \in {"AC Transit", "San Francisco Muni"},
        st \in {{}, {"Muni"}}}
    \cup {Elem("agency", ("tag" :> "sf-muni") @@ ("title" :> "San Francisco Muni"), <<>>)}

AgencyListBodies == {Body(s) : s \in SeqsUpTo(AgencyElems, MaxAgencies)}

WellFormedAgencyList(body) ==
    \A i \in 1..Len(body.children) :
        Has(body.children[i].attrib, {"tag", "title", "regionTitle"})

\* routeList: <route tag= title=/>
RouteElem(tag, title) == Elem("route", ("tag" :> tag) @@ ("title" :> title), <<>>)

RouteElems ==
    {RouteElem("R1", "First"), RouteElem("R2", "Second"), RouteElem("R1", "Other"),
     Elem("route", ("tag" :> "R2"), <<>>)}

RouteListBodies == {Body(s) : s \in SeqsUpTo(RouteElems, MaxRoutes)}

\* routeConfig: <route> <stop .../> <direction ...> <stop tag=/> </direction> <path/> </route>
StopElems ==
    {Elem("stop", ("tag" :> "s1") @@ ("lat" :> "37.79") @@ ("lon" :> "-122.42")
                  @@ ("title" :> "Van Ness Ave") @@ ("stopId" :> "14015"), <<>>),
     Elem("stop", ("tag" :> "s2") @@ ("lat" :> "37.80") @@ ("lon" :> "-122.41")
                  @@ ("title" :> "Polk St") @@ ("shortTitle" :> "Polk"), <<>>),
     Elem("stop", ("tag" :> "s1") @@ ("lon" :> "-122.42") @@ ("title" :> "Van Ness Ave"), <<>>)}

DirStopElem(tag) == Elem("stop", ("tag" :> tag), <<>>)

DirStopSeqs == SeqsUpTo({DirStopElem("s1"), DirStopElem("s2")}, MaxDirStops)

DirectionElems ==
    {Elem("direction", ("tag" :> "in") @@ ("title" :> "Inbound") @@ ("name" :> "Downtown"), ss) :
        ss \in DirStopSeqs}
    \cup {Elem("direction", ("tag" :> "out") @@ ("title" :> "Outbound"), ss) : ss \in DirStopSeqs}
    \cup {Elem("direction", ("tag" :> "in"), <<DirStopElem("s1")>>),
          Elem("direction", ("title" :> "Inbound"), <<DirStopElem("s1")>>),
          Elem("direction", ("tag" :> "in") @@ ("title" :> "Inbound"),
               <<Elem("stop", <<>>, <<>>)>>)}

RouteChildren == StopElems \cup DirectionElems \cup {Elem("path", <<>>, <<>>)}

RouteCfgElem(children) == Elem("route", ("tag" :> "R1") @@ ("title" :> "First"), children)

RouteCfgBodies ==
    {Body(<<>>)} \cup {Body(<<RouteCfgElem(cs)>>) : cs \in SeqsUpTo(RouteChildren, MaxChildren)}

\* predictions: <predictions routeTag=> <direction title=> <prediction .../> </direction>
\*              <message priority= text=/> </predictions>
PredRequired(isDeparture) ==
    ("epochTime" :> "1478262000000") @@ ("seconds" :> "95") @@ ("minutes" :> "1")
    @@ ("isDeparture" :> isDeparture) @@ ("dirTag" :> "in") @@ ("tripTag" :> "7301")

Optional(name, v) == IF v = None THEN <<>> ELSE (name :> v)

PredElem(isDeparture, layover, scheduled, delayed) ==
    Elem("prediction",
         PredRequired(isDeparture) @@ Optional("affectedByLayover", layover)
         @@ Optional("isScheduleBased", scheduled) @@ Optional("isDelayed", delayed),
         <<>>)

PredElems ==
    {PredElem(d, l, s, y) :
        d \in {"true", "false"}, l \in {None, "true", "false"},
        s \in {None, "true", "false"}, y \in {None, "true", "false"}}
    \cup {PredElem("TRUE", None, None, None),
          PredElem("true", None, None, "maybe"),
          Elem("prediction", ("epochTime" :> "1478262000000") @@ ("seconds" :> "95")
                             @@ ("minutes" :> "1") @@ ("isDeparture" :> "true"), <<>>)}

pA == PredElem("true", None, None, None)
pB == PredElem("false", "true", "false", None)

PredDirElem(title, preds) == Elem("direction", ("title" :> title), preds)
MessageElem(priority, text) ==
    Elem("message", ("priority" :> priority) @@ ("text" :> text), <<>>)

InfoElems ==
    {PredDirElem("Inbound", <<pA>>), PredDirElem("Inbound", <<pA, pB>>),
     PredDirElem("Outbound", <<pB, pA>>), PredDirElem("Outbound", <<>>),
     PredDirElem("messages", <<pA>>),
     Elem("direction", <<>>, <<pA>>),
     MessageElem("Normal", "Elevator out of service"), MessageElem("Low", "Detour"),
     Elem("message", ("priority" :> "Low"), <<>>),
     Elem("note", <<>>, <<>>)}

PredBlock(routeTag, infos) == Elem("predictions", ("routeTag" :> routeTag), infos)

BlockElems ==
    {PredBlock("R1", <<PredDirElem("Inbound", <<pA>>)>>),
     PredBlock("R1", <<MessageElem("Low", "Detour")>>),
     PredBlock("R2", <<PredDirElem("Outbound", <<pB>>)>>),
     PredBlock("R9", <<>>),
     PredBlock("", <<PredDirElem("Inbound", <<pB>>)>>),
     Elem("predictions", <<>>, <<>>)}

PredBodies ==
    {Body(<<PredBlock("R1", <<PredDirElem("Inbound", ps)>>)>>) : ps \in SeqsUpTo(PredElems, MaxPreds)}
    \cup {Body(<<PredBlock("R1", infos)>>) : infos \in SeqsUpTo(InfoElems, MaxInfos)}
    \cup {Body(bs) : bs \in SeqsUpTo(BlockElems, MaxBlocks)}

\* the few bodies of each kind served while an Agency object is followed through its life
SomeAgencyListBodies ==
    {Body(<<>>),
     Body(<<AgencyElem("actransit", "AC Transit", {}), AgencyElem("sf-muni", "San Francisco Muni", {"Muni"})>>),
     Body(<<Elem("agency", ("tag" :> "sf-muni"), <<>>)>>)}

SomeRouteCfgBodies ==
    {Body(<<>>),
     Body(<<RouteCfgElem(<<>>)>>),
     Body(<<RouteCfgElem(<<Elem("stop", ("tag" :> "s1"), <<>>)>>)>>),
     Body(<<RouteCfgElem(<<Elem("direction", ("tag" :> "in") @@ ("title" :> "Inbound"),
                                <<DirStopElem("s2"), DirStopElem("s1")>>)>>)>>)}

SomePredBodies ==
    {Body(<<>>),
     Body(<<PredBlock("R1", <<PredDirElem("Inbound", <<pA>>)>>)>>),
     Body(<<PredBlock("R1", <<MessageElem("Low", "Detour")>>), PredBlock("R2", <<>>)>>),
     Body(<<PredBlock("R9", <<PredDirElem("Outbound", <<pB>>)>>)>>),
     Body(<<Elem("predictions", <<>>, <<>>)>>)}

(***************************************************************************)
(* Spec: an Agency object from construction on, and the module function.   *)
(***************************************************************************)
Init ==
    /\ obj = "unconstructed"
    /\ agency = None
    /\ routes = EmptyDict
    /\ calls = 0
    /\ lastRequest = EmptyDict
    /\ response = NoBody
    /\ op = "none"
    /\ args = <<>>
    /\ outcome = "none"
    /\ result = <<>>

Construct == \E a \in AgencyIds, body \in RouteListBodies : AgencyInit(a, body)
CallGetAgencies == \E body \in SomeAgencyListBodies : GetAgencies(body)
CallGetRoutes == \E body \in RouteListBodies : GetRoutes(body)
CallGetRouteConfig ==
    \E route_id \in RouteIds, body \in SomeRouteCfgBodies : GetRouteConfig(route_id, body)
CallGetPredictions ==
    \E stop_id \in StopIds, route_id \in RouteIds \cup {None, ""}, body \in SomePredBodies :
        GetPredictions(stop_id, route_id, body)

Next ==
    \/ Construct
    \/ CallGetAgencies
    \/ CallGetRoutes
    \/ CallGetRouteConfig
    \/ CallGetPredictions

Spec == Init /\ [][Next]_vars

(***************************************************************************)
(* One call on one body: the transport holds the body it will serve, and   *)
(* the operation is called once.                                           *)
(***************************************************************************)
InitAgencies ==
    /\ obj = "unconstructed"
    /\ agency = None
    /\ routes = EmptyDict
    /\ calls = 0
    /\ lastRequest = EmptyDict
    /\ response \in AgencyListBodies
    /\ op = "none"
    /\ args = <<>>
    /\ outcome = "none"
    /\ result = <<>>

OneGetAgencies == op = "none" /\ GetAgencies(response)

SpecAgencies == InitAgencies /\ [][OneGetAgencies]_vars

\* the state after Agency("sf-muni") on a routeList of R1/First, R2/Second
Constructed(bodies) ==
    /\ obj = "live"
    /\ agency = "sf-muni"
    /\ routes = RoutesOf(Body(<<RouteElem("R1", "First"), RouteElem("R2", "Second")>>)).value
    /\ calls = 1
    /\ lastRequest = RouteListRequest("sf-muni")
    /\ response \in bodies
    /\ op = "__init__"
    /\ args = <<"sf-muni">>
    /\ outcome = "return"
    /\ result = <<>>

InitRouteConfig == Constructed(RouteCfgBodies)

OneGetRouteConfig ==
    op = "__init__" /\ \E route_id \in {"R1", "R9"} : GetRouteConfig(route_id, response)

SpecRouteConfig == InitRouteConfig /\ [][OneGetRouteConfig]_vars

InitPredictions == Constructed(PredBodies)

OneGetPredictions ==
    op = "__init__" /\ \E stop_id \in StopIds, route_id \in RouteIds \cup {None, ""} :
        GetPredictions(stop_id, route_id, response)

SpecPredictions == InitPredictions /\ [][OneGetPredictions]_vars

(***************************************************************************)
(* Properties.                                                             *)
(***************************************************************************)

\* C1: a get_route_config call whose route id is not a key of self.routes ends
\* with the invalid-route exception, and the transport has received no GET
\* during the call: the count of GETs and the last request are what they were.
C1_InvalidRouteNoRequest ==
    [][(op' = "get_route_config" /\ args'[1] \notin DOMAIN routes)
          => (outcome' = "Exception" /\ calls' = calls /\ lastRequest' = lastRequest
              /\ response' = response)]_vars

C1_Witness ==
    /\ op = "get_route_config"
    /\ args[1] \notin DOMAIN routes
    /\ outcome = "Exception"
    /\ calls = 1
    /\ lastRequest = RouteListRequest(agency)

\* C2: in every per-route record get_predictions builds, the keys of the
\* record's "directions" mapping are those of the block's direction children,
\* each mapped to the list of that direction's decoded predictions in document
\* order, and the "messages" list holds only {priority, text} entries.
C2_DirectionsHoldPredictions ==
    (op = "get_predictions" /\ outcome = "return" /\ ~ Truthy(args[2])) =>
        \A b \in 1..Len(response.children) :
            LET block == response.children[b]
                line == result[block.attrib["routeTag"]]
                dirs == {i \in 1..Len(block.children) : block.children[i].tag = "direction"}
            IN  LastWith(response.children, "routeTag", block.attrib["routeTag"]) = b =>
                /\ DOMAIN line["directions"] = {block.children[i].attrib["title"] : i \in dirs}
                /\ \A i \in dirs :
                     LET d == block.children[i]
                         title == d.attrib["title"]
                     IN  LastTagged(block.children, "direction", "title", title) = i =>
                         line["directions"][title] = PredDirLoop(d.children, 1, EmptyList).value
                /\ \A j \in 1..Len(line["messages"]) :
                     DOMAIN line["messages"][j] = {"priority", "text"}

\* C3: when the response decodes, get_predictions with a route id R (a
\* non-empty string: the code takes "" and None alike as no route id) returns
\* the record of the block whose routeTag is R (the last such block), not an
\* outer mapping, whenever the response has such a block; with no route id it
\* returns a mapping whose keys are the routeTag values of the blocks, each
\* mapped to the record of the (last) block with that routeTag.
C3_SingleOrMapping ==
    (op = "get_predictions" /\ PredictionsOf(response).err = "") =>
        LET route_id == args[2]
            blocks == response.children
        IN  /\ (Truthy(route_id) /\ LastWith(blocks, "routeTag", route_id) # 0) =>
                /\ outcome = "return"
                /\ result = PredLineOf(blocks[LastWith(blocks, "routeTag", route_id)]).value
            /\ ~ Truthy(route_id) =>
                /\ outcome = "return"
                /\ DOMAIN result = {blocks[b].attrib["routeTag"] : b \in 1..Len(blocks)}
                /\ \A k \in DOMAIN result :
                     result[k] = PredLineOf(blocks[LastWith(blocks, "routeTag", k)]).value

C3_Witness ==
    /\ op = "get_predictions"
    /\ args[2] = "R2"
    /\ outcome = "return"
    /\ Len(response.children) = 2
    /\ response.children[1].attrib = ("routeTag" :> "R1")
    /\ DOMAIN result = {"directions", "messages", "Outbound"}

\* C4: for a well-formed agencyList body get_agencies returns a mapping whose
\* keys are exactly the tag attributes of the agency elements, each value a
\* record with the element's title and regionTitle, and with its shortTitle,
\* when it has one, inside that record.
C4_AgenciesKeyedByTag ==
    (op = "get_agencies" /\ WellFormedAgencyList(response)) =>
        LET tree == response.children IN
        /\ outcome = "return"
        /\ DOMAIN result = {tree[i].attrib["tag"] : i \in 1..Len(tree)}
        /\ \A k \in DOMAIN result :
             LET att == tree[LastWith(tree, "tag", k)].attrib IN
             /\ result[k]["title"] = att["title"]
             /\ result[k]["regionTitle"] = att["regionTitle"]
             /\ "shortTitle" \in DOMAIN att =>
                  /\ "shortTitle" \in DOMAIN result[k]
                  /\ result[k]["shortTitle"] = att["shortTitle"]

\* the records get_predictions returned, by route tag
ReturnedLines == IF Truthy(args[2]) THEN (args[2] :> result) ELSE result

\* C5: every prediction element of a returned record was decoded with
\* isDeparture TRUE for "true" and FALSE for "false", and with each of
\* affectedByLayover, isScheduleBased, isDelayed the boolean of its attribute
\* when present and FALSE when absent; all four are booleans. (The records
\* are read where the code stores them: under the direction's title.)
C5_BooleanCoercion ==
    (op = "get_predictions" /\ outcome = "return") =>
        \A b \in 1..Len(response.children) :
            LET block == response.children[b]
                tag == block.attrib["routeTag"]
            IN  (tag \in DOMAIN ReturnedLines
                   /\ LastWith(response.children, "routeTag", tag) = b) =>
                \A i \in 1..Len(block.children) :
                    LET d == block.children[i] IN
                    (d.tag = "direction"
                       /\ LastTagged(block.children, "direction", "title", d.attrib["title"]) = i) =>
                    \A j \in 1..Len(d.children) :
                        LET att == d.children[j].attrib
                            rec == ReturnedLines[tag][d.attrib["title"]][j]
                        IN  /\ att["isDeparture"] = "true" => rec["isDeparture"] = TRUE
                            /\ att["isDeparture"] = "false" => rec["isDeparture"] = FALSE
                            /\ rec["isDeparture"] \in BOOLEAN
                            /\ \A n \in {"affectedByLayover", "isScheduleBased", "isDelayed"} :
                                 /\ rec[n] \in BOOLEAN
                                 /\ n \notin DOMAIN att => rec[n] = FALSE
                                 /\ n \in DOMAIN att => rec[n] = (att[n] = "true")

C5_Witness ==
    /\ op = "get_predictions"
    /\ outcome = "return"
    /\ args[2] = None
    /\ response = Body(<<PredBlock("R1",
                         <<PredDirElem("Inbound", <<PredElem("false", None, "false", "true")>>)>>)>>)
    /\ result["R1"]["Inbound"][1]["isDeparture"] = FALSE
    /\ result["R1"]["Inbound"][1]["isDelayed"] = TRUE

\* C6 as stated: a routeConfig response whose route element has no children
\* makes get_route_config fail; it returns no result.
C6_EmptyRouteFails ==
    (/\ op = "get_route_config"
     /\ args[1] \in DOMAIN routes
     /\ Len(response.children) > 0
     /\ Len(response.children[1].children) = 0) => outcome # "return"

\* C6 as amended: a routeConfig response whose route element has no children
\* makes get_route_config, called with a cached route id, return
\* {stops: {}, directions: {}, paths: {}}; no error is raised.
C6_EmptyRouteReturnsEmpty ==
    (/\ op = "get_route_config"
     /\ args[1] \in DOMAIN routes
     /\ Len(response.children) > 0
     /\ Len(response.children[1].children) = 0)
    => (/\ outcome = "return"
        /\ DOMAIN result = {"stops", "directions", "paths"}
        /\ DOMAIN result["stops"] = {}
        /\ DOMAIN result["directions"] = {}
        /\ DOMAIN result["paths"] = {})

C6_Witness ==
    /\ op = "get_route_config"
    /\ args[1] = "R1"
    /\ response = Body(<<RouteCfgElem(<<>>)>>)
    /\ outcome = "return"

\* C7: once the Agency object is constructed no operation changes self.routes
\* or self.agency, whether it returns or raises; self.routes changes only in
\* the constructor's step, to the whole table decoded from a routeList body
\* that decoded without error, and a failed constructor leaves it unassigned.
C7_RouteTableFrozen ==
    [][/\ obj = "live" => (obj' = "live" /\ routes' = routes /\ agency' = agency)
       /\ obj = "failed" => (obj' = "failed" /\ routes' = routes /\ agency' = agency)
       /\ routes' # routes =>
            /\ obj = "unconstructed"
            /\ obj' = "live"
            /\ RoutesOf(response').err = ""
            /\ routes' = RoutesOf(response').value
       /\ obj' = "failed" => routes' = EmptyDict]_vars

C7_Witness ==
    /\ obj = "live"
    /\ op = "get_routes"
    /\ outcome = "return"
    /\ DOMAIN result # DOMAIN routes
    /\ calls = MaxCalls

\* C8 as stated: get_predictions with a route id that is not a key of
\* self.routes returns no result.
C8_UncachedRouteFails ==
    (op = "get_predictions" /\ Truthy(args[2]) /\ args[2] \notin DOMAIN routes)
        => outcome # "return"

\* C8 as amended: get_predictions with a route id R that is not a key of
\* self.routes is not rejected locally: the predictions GET is sent with
\* routeTag = R, and the call returns (the record of the response's block
\* with routeTag R) exactly when the response decodes without error and has a
\* block with routeTag R; otherwise it raises KeyError.
C8_UncachedRouteIsSent ==
    (op = "get_predictions" /\ Truthy(args[2]) /\ args[2] \notin DOMAIN routes) =>
        LET found == LastWith(response.children, "routeTag", args[2]) IN
        /\ lastRequest = ("a" :> agency) @@ ("command" :> "predictions")
                         @@ ("stopId" :> args[1]) @@ ("routeTag" :> args[2])
        /\ outcome \in {"return", "KeyError"}
        /\ outcome = "return" <=> (PredictionsOf(response).err = "" /\ found # 0)
        /\ outcome = "return" => result = PredLineOf(response.children[found]).value

C8_Witness ==
    /\ op = "get_predictions"
    /\ args[2] = "R9"
    /\ "R9" \notin DOMAIN routes
    /\ DOMAIN routes = {"R1", "R2"}
    /\ outcome = "return"
    /\ DOMAIN result = {"directions", "messages", "Outbound"}

\* C9: for every direction child of the route element (the last one of its
\* tag, whose entry the mapping keeps), the stop sequence get_route_config
\* stores is the sequence of the tag attributes of its children: same length,
\* same order, duplicates kept.
C9_DirectionStopsInDocumentOrder ==
    (op = "get_route_config" /\ outcome = "return") =>
        LET route_cfg == response.children[1].children IN
        \A i \in 1..Len(route_cfg) :
            LET c == route_cfg[i] IN
            (c.tag = "direction"
               /\ LastTagged(route_cfg, "direction", "tag", c.attrib["tag"]) = i) =>
            LET stops == result["directions"][c.attrib["tag"]]["stops"] IN
            /\ Len(stops) = Len(c.children)
            /\ \A j \in 1..Len(c.children) : stops[j] = c.children[j].attrib["tag"]

C9_Witness ==
    /\ op = "get_route_config"
    /\ outcome = "return"
    /\ "out" \in DOMAIN result["directions"]
    /\ result["directions"]["out"]["stops"] = <<"s2", "s2">>
    /\ "in" \in DOMAIN result["directions"]
    /\ result["directions"]["in"]["stops"] = <<"s2", "s1">>

\* C10: get_routes on a routeList body whose route elements all have tag and
\* title returns a mapping whose keys are exactly the tags of the route
\* elements, each mapped to the title of a route element with that tag;
\* R1/First, R2/Second gives {R1: First, R2: Second}.
C10_RoutesKeyedByTag ==
    op = "get_routes" =>
        LET tree == response.children IN
        /\ (\A i \in 1..Len(tree) : Has(tree[i].attrib, {"tag", "title"})) => outcome = "return"
        /\ outcome = "return" =>
             /\ DOMAIN result = {tree[i].attrib["tag"] : i \in 1..Len(tree)}
             /\ \A k \in DOMAIN result :
                  \E i \in 1..Len(tree) :
                      tree[i].attrib["tag"] = k /\ tree[i].attrib["title"] = result[k]
        /\ response = Body(<<RouteElem("R1", "First"), RouteElem("R2", "Second")>>) =>
             result = [R1 |-> "First", R2 |-> "Second"]

C10_Witness ==
    /\ op = "get_routes"
    /\ outcome = "return"
    /\ response = Body(<<RouteElem("R1", "First"), RouteElem("R2", "Second")>>)
    /\ DOMAIN result = {"R1", "R2"}

====
